---- MODULE Spec2Model ----
(***************************************************************************)
(* Analysis routes of Claude-Code-Workflow (ccw): the session repository   *)
(* behind GET /api/analysis and GET /api/analysis/:id, the JsonCardView    *)
(* renderer of arbitrary JSON, and the content area of AnalysisPage.       *)
(*                                                                         *)
(* JavaScript strings are modelled as sequences of one-character strings,  *)
(* so that the regular expression of parseSessionId, String.replace,       *)
(* decodeURIComponent and localeCompare are computed character by          *)
(* character.                                                              *)
(***************************************************************************)
EXTENDS Integers, Sequences, FiniteSets, TLC

\* ------------------------------------------------------------------ bounds
\* Longest free part of a slug generated for the parser's inputs.
MaxSlugLen == 2
\* Number of changes the external writer makes to the file system in a run.
MaxWrites == 1

\* ----------------------------------------------------------------- strings
Digits == {"0", "1", "2", "3", "4", "5", "6", "7", "8", "9"}

\* Characters the regular expression's "." refuses (no s flag).
LineTerminators == {"\n", "\r"}

Max(S) == CHOOSE x \in S : \A y \in S : y <= x

ANL == <<"A", "N", "L", "-">>
Date_2026_01_01 == <<"2", "0", "2", "6", "-", "0", "1", "-", "0", "1">>
Date_2026_02_15 == <<"2", "0", "2", "6", "-", "0", "2", "-", "1", "5">>
Date_2025_12_31 == <<"2", "0", "2", "5", "-", "1", "2", "-", "3", "1">>

\* ------------------------------------------------------------ parseSessionId
\* \d{4}-\d{2}-\d{2}
IsDateToken(d) ==
    /\ Len(d) = 10
    /\ \A i \in {1, 2, 3, 4, 6, 7, 9, 10} : d[i] \in Digits
    /\ d[5] = "-"
    /\ d[8] = "-"

\* -(\d{4}-\d{2}-\d{2}) with no end anchor: what the regular expression would
\* accept were its "$" lost.
MatchTail_unanchored(s) ==
    /\ Len(s) >= 11
    /\ s[1] = "-"
    /\ IsDateToken(SubSeq(s, 2, 11))

\* -(\d{4}-\d{2}-\d{2})$ matched against the rest of the name
MatchTail(s) ==
    /\ Len(s) = 11
    /\ s[1] = "-"
    /\ IsDateToken(SubSeq(s, 2, 11))

NoIdentity == [ok |-> FALSE, slug |-> <<>>, date |-> <<>>]

\* folderName.match(/^ANL-(.+)-(\d{4}-\d{2}-\d{2})$/): the greedy (.+) takes the
\* longest run of non-line-terminator characters after which the tail matches.
parseSessionId(folderName) ==
    LET n == Len(folderName)
        starts == n >= 4 /\ SubSeq(folderName, 1, 4) = ANL
        cands == {k \in 1..(n - 4) :
                     /\ \A i \in 5..(4 + k) : folderName[i] \notin LineTerminators
                     /\ MatchTail(SubSeq(folderName, 5 + k, n))}
    IN  IF ~starts \/ cands = {}
        THEN NoIdentity
        ELSE LET k == Max(cands)
             IN  [ok |-> TRUE,
                  slug |-> SubSeq(folderName, 5, 4 + k),
                  date |-> SubSeq(folderName, 6 + k, 15 + k)]

\* slug.replace(/-/g, ' ')
RECURSIVE ReplaceDashes(_)
ReplaceDashes(s) ==
    IF s = <<>> THEN <<>>
    ELSE <<IF Head(s) = "-" THEN " " ELSE Head(s)>> \o ReplaceDashes(Tail(s))

\* ------------------------------------------------------------- JS values
\* A JavaScript value that can sit in the topic field: its type and its text.
Undefined == [t |-> "undefined", s |-> <<>>]
Str(chars) == [t |-> "string", s |-> chars]
Num(chars) == [t |-> "number", s |-> chars]

\* ToBoolean of such a value
JSTruthy(v) ==
    CASE v.t = "undefined" -> FALSE
      [] v.t = "string" -> v.s # <<>>
      [] v.t = "number" -> v.s # <<"0">>

\* What a read resolves to: null, a parsed JSON object (known by its source
\* text and its topic field), or a file's text.
NullDoc == [t |-> "null", topic |-> Undefined, src |-> ""]
ObjDoc(topic, src) == [t |-> "object", topic |-> topic, src |-> src]
TextDoc(src) == [t |-> "text", topic |-> Undefined, src |-> src]

DocTruthy(doc) == doc.t # "null"

\* ------------------------------------------------------------ file contents
\* The state of a path is "ENOENT" (nothing there), "EACCES" (there, but
\* readFile fails: no permission, or a directory) or the text of the file.
TxtTopic == "{\"topic\":\"T\"}"
TxtNoTopic == "{}"
TxtNumTopic == "{\"topic\":42}"
TxtNull == "null"
TxtCut == "{\"topic\":"
TxtDiscussion == "# Discussion"
TxtDiscussionCut == "# Disc"

JsonTexts == {TxtTopic, TxtNoTopic, TxtNumTopic, TxtNull, TxtCut}
TextTexts == {TxtDiscussion, TxtDiscussionCut}
FileStates == {"ENOENT", "EACCES"} \cup JsonTexts \cup TextTexts

\* A partial write or truncation leaves a prefix of the text.
Truncated(text) ==
    CASE text = TxtDiscussion -> TxtDiscussionCut
      [] text = TxtTopic -> TxtCut
      [] text = TxtNumTopic -> TxtCut
      [] OTHER -> text

\* JSON.parse: a SyntaxError on anything that is not a complete JSON text.
JSONParse(text) ==
    CASE text = TxtTopic -> [thrown |-> FALSE, doc |-> ObjDoc(Str(<<"T">>), text)]
      [] text = TxtNoTopic -> [thrown |-> FALSE, doc |-> ObjDoc(Undefined, text)]
      [] text = TxtNumTopic -> [thrown |-> FALSE, doc |-> ObjDoc(Num(<<"4", "2">>), text)]
      [] text = TxtNull -> [thrown |-> FALSE, doc |-> NullDoc]
      [] OTHER -> [thrown |-> TRUE, doc |-> NullDoc]

\* fs.existsSync
existsSync(st) == st # "ENOENT"

\* fs/promises readFile(path, 'utf-8')
readFile(st) ==
    IF st \in {"ENOENT", "EACCES"}
    THEN [thrown |-> TRUE, text |-> ""]
    ELSE [thrown |-> FALSE, text |-> st]

\* The result of one reader call: whether it raised, and the value returned.
Returned(doc) == [thrown |-> FALSE, val |-> doc]
Raised == [thrown |-> TRUE, val |-> NullDoc]

\* readJsonFile with its catch clause lost.
readJsonFile_nocatch(st) ==
    LET r == readFile(st)
    IN  IF r.thrown THEN Raised
        ELSE LET p == JSONParse(r.text)
             IN  IF p.thrown THEN Raised ELSE Returned(p.doc)

\* readJsonFile after its existsSync returned true: readFile, JSON.parse, and
\* the catch that turns either failure into null.
readJsonFile(st) ==
    LET r == readFile(st)
    IN  IF r.thrown THEN Returned(NullDoc)
        ELSE LET p == JSONParse(r.text)
             IN  IF p.thrown THEN Returned(NullDoc) ELSE Returned(p.doc)

\* readTextFile after its existsSync returned true.
readTextFile(st) ==
    LET r == readFile(st)
    IN  IF r.thrown THEN Returned(NullDoc) ELSE Returned(TextDoc(r.text))

\* (conclusions?.topic as string) || parsed.slug.replace(/-/g, ' ')
TopicOf(conclusions, parsed) ==
    LET declared == IF conclusions.t = "object" THEN conclusions.topic ELSE Undefined
    IN  IF JSTruthy(declared) THEN declared ELSE Str(ReplaceDashes(parsed.slug))

\* ------------------------------------------------------------- file system
\* Children of <project>/.workflow/.analysis that the runs below may find.
Name1 == ANL \o <<"a", "-", "b", "-">> \o Date_2026_01_01
Name2 == ANL \o <<"c", "-">> \o Date_2026_02_15
Name3 == ANL \o <<"d", "-">> \o Date_2025_12_31
Name4 == ANL \o <<"e", "-">> \o Date_2026_01_01
Junk == <<"t", "m", "p">>
Names == {Name1, Name2, Name3, Name4, Junk}

\* The four artifacts, in the order getSessionDetail asks for them.
ArtifactSeq == <<"discussion.md", "conclusions.json", "explorations.json",
                 "perspectives.json">>
Artifacts == {ArtifactSeq[i] : i \in 1..4}

\* What stat finds at a child: nothing, a directory, a regular file, or a
\* symbolic link whose target is gone.
EntryKinds == {"none", "dir", "file", "dangling"}

NoFiles == [a \in Artifacts |-> "ENOENT"]

VARIABLES
    adir,       \* the analysis directory: "missing", "dir" or "file"
    entry,      \* child name -> EntryKinds
    files,      \* child name -> artifact -> state of that path
    nWrites,    \* changes made so far by the external writer
    lpc,        \* list request: where its handler stands
    ltodo,      \* list request: folders of the readdir result not yet visited
    lcur,       \* list request: the folder getSessionSummary is working on
    lhas,       \* list request: hasConclusions of the current folder
    lsessions,  \* list request: the sessions array
    lseen,      \* list request: per folder, how its conclusions read ended
    lresp,      \* the last list response
    dpc,        \* detail request: where its handler stands
    draw,       \* detail request: the path segment as received
    dsid,       \* detail request: sessionId
    dreads,     \* detail request: artifact -> state of its read
    dresp,      \* the last detail response
    pname,      \* parser run: the folder name given
    presult,    \* parser run: what parseSessionId returned
    rdata,      \* JsonCardView: the data prop
    rexpanded,  \* JsonCardView: path of a mounted indexed list -> its expanded state
    rview,      \* JsonCardView: what is rendered
    qstatus,    \* AnalysisPage: the session query: "pending", "success" or "error"
    qsessions,  \* AnalysisPage: the sessions the query returned
    searchQuery, \* AnalysisPage: the text of the search box
    pcontent    \* AnalysisPage: what the content area shows

fsvars == <<adir, entry, files>>
lvars == <<lpc, ltodo, lcur, lhas, lsessions, lseen, lresp>>
dvars == <<dpc, draw, dsid, dreads, dresp>>
pvars == <<pname, presult>>
uivars == <<rdata, rexpanded, rview, qstatus, qsessions, searchQuery, pcontent>>
vars == <<adir, entry, files, nWrites, lpc, ltodo, lcur, lhas, lsessions, lseen,
          lresp, dpc, draw, dsid, dreads, dresp, pname, presult, rdata, rexpanded,
          rview, qstatus, qsessions, searchQuery, pcontent>>

\* What a path under the analysis directory resolves to.
EntryOf(n) == IF adir = "dir" /\ n \in Names THEN entry[n] ELSE "none"
FileAt(n, a) == IF EntryOf(n) = "dir" THEN files[n][a] ELSE "ENOENT"

\* ------------------------------------------------------------------- paths
\* A path is the sequence of its segments below the project root; a segment
\* is a string. ".." segments at the front lead out of the project.
DotWorkflow == <<".", "w", "o", "r", "k", "f", "l", "o", "w">>
DotAnalysis == <<".", "a", "n", "a", "l", "y", "s", "i", "s">>
DotDot == <<".", ".">>

\* The segments of a string: the pieces between its "/" characters.
RECURSIVE SplitPath(_, _)
SplitPath(s, cur) ==
    IF s = <<>> THEN <<cur>>
    ELSE IF Head(s) = "/" THEN <<cur>> \o SplitPath(Tail(s), <<>>)
    ELSE SplitPath(Tail(s), Append(cur, Head(s)))

\* path.normalize: empty and "." segments are dropped, and a ".." segment
\* takes away the segment before it.
RECURSIVE normalize(_, _)
normalize(todo, done) ==
    IF todo = <<>> THEN done
    ELSE LET h == Head(todo)
         IN  IF h = <<>> \/ h = <<".">> THEN normalize(Tail(todo), done)
             ELSE IF h # DotDot THEN normalize(Tail(todo), Append(done, h))
             ELSE IF done = <<>> \/ done[Len(done)] = DotDot
             THEN normalize(Tail(todo), Append(done, h))
             ELSE normalize(Tail(todo), SubSeq(done, 1, Len(done) - 1))

\* path.join(base, s) for a normalized base
join(base, s) == normalize(SplitPath(s, <<>>), base)

\* join(resolvedPath, '.workflow', '.analysis')
AnalysisDir == <<DotWorkflow, DotAnalysis>>

\* join(analysisDir, sessionId)
SessionPath(sessionId) == join(AnalysisDir, sessionId)

\* join(sessionPath, artifact)
ArtifactPath(sessionId, a) == Append(SessionPath(sessionId), a)

\* A folder of the project's .workflow directory, beside the analysis
\* directory, that holds notes.
OutsideName == <<"x", "-">> \o Date_2026_01_01
OutsideDir == <<DotWorkflow, OutsideName>>
TxtNotes == "# Notes"

\* What a path resolves to.
KindAt(path) ==
    IF path = OutsideDir THEN "dir"
    ELSE IF Len(path) = 3 /\ SubSeq(path, 1, 2) = AnalysisDir THEN EntryOf(path[3])
    ELSE "none"

\* The state of the file a path names.
FileAtPath(path) ==
    IF path = Append(OutsideDir, "discussion.md") THEN TxtNotes
    ELSE IF Len(path) = 4 /\ SubSeq(path, 1, 2) = AnalysisDir /\ path[4] \in Artifacts
    THEN FileAt(path[3], path[4])
    ELSE "ENOENT"

\* ----------------------------------------------------------------- sorting
CharRank(c) ==
    CASE c = "-" -> 0
      [] c = "0" -> 1 [] c = "1" -> 2 [] c = "2" -> 3 [] c = "3" -> 4
      [] c = "4" -> 5 [] c = "5" -> 6 [] c = "6" -> 7 [] c = "7" -> 8
      [] c = "8" -> 9 [] c = "9" -> 10
      [] OTHER -> 11

\* x.localeCompare(y) on strings of digits and dashes: negative, zero or positive
RECURSIVE localeCompare(_, _)
localeCompare(x, y) ==
    IF x = <<>> /\ y = <<>> THEN 0
    ELSE IF x = <<>> THEN -1
    ELSE IF y = <<>> THEN 1
    ELSE IF CharRank(Head(x)) < CharRank(Head(y)) THEN -1
    ELSE IF CharRank(Head(x)) > CharRank(Head(y)) THEN 1
    ELSE localeCompare(Tail(x), Tail(y))

\* The comparator with its operands swapped: ascending dates.
compareSessions_ascending(a, b) == localeCompare(a.createdAt, b.createdAt)

\* (a, b) => b.createdAt.localeCompare(a.createdAt)
compareSessions(a, b) == localeCompare(b.createdAt, a.createdAt)

\* Array.prototype.sort is stable: an element goes behind every element that
\* does not compare greater than it.
RECURSIVE InsertSorted(_, _)
InsertSorted(x, sorted) ==
    IF sorted = <<>> THEN <<x>>
    ELSE IF compareSessions(Head(sorted), x) <= 0
         THEN <<Head(sorted)>> \o InsertSorted(x, Tail(sorted))
         ELSE <<x>> \o sorted

RECURSIVE SortSessions(_)
SortSessions(arr) ==
    IF arr = <<>> THEN <<>>
    ELSE InsertSorted(arr[Len(arr)], SortSessions(SubSeq(arr, 1, Len(arr) - 1)))

\* ------------------------------------------------------------ list request
\* A response: the HTTP status (0 while none was sent), the body's data and
\* total, the writer's count when the request began (w0) and ended (w1), and
\* the call whose exception produced a 500.
NoListResp == [code |-> 0, data |-> <<>>, total |-> 0, w0 |-> 0, w1 |-> 0,
               cause |-> ""]

Idle(pc) == pc \in {"idle", "done"}

\* res.writeHead(code); res.end(JSON.stringify(...)); return true
ListRespond(code, data, cause) ==
    /\ lresp' = [code |-> code, data |-> data, total |-> Len(data),
                 w0 |-> lresp.w0, w1 |-> nWrites, cause |-> cause]
    /\ lpc' = "done"

\* The object getSessionSummary returns.
Summary(folderName, parsed, hasConclusions, conclusions) ==
    [id |-> folderName,
     name |-> folderName,
     topic |-> TopicOf(conclusions, parsed),
     createdAt |-> parsed.date,
     status |-> IF hasConclusions THEN "completed" ELSE "in_progress",
     hasConclusions |-> hasConclusions]

\* if (summary) sessions.push(summary), and on to the next folder
ListPush(hasConclusions, conclusions, outcome) ==
    /\ lsessions' = Append(lsessions,
                           Summary(lcur, parseSessionId(lcur), hasConclusions,
                                   conclusions))
    /\ lseen' = [lseen EXCEPT ![lcur] = outcome]
    /\ lpc' = "loop"
    /\ lcur' = <<>>
    /\ lhas' = FALSE
    /\ UNCHANGED <<ltodo, lresp>>

\* How a conclusions read that got past both existence checks ended.
ReadOutcome(st) ==
    IF readFile(st).thrown THEN "readfail"
    ELSE IF JSONParse(readFile(st).text).thrown THEN "parsefail"
    ELSE "parsed"

\* GET /api/analysis arrives
ListBegin ==
    /\ Idle(lpc) /\ Idle(dpc)
    /\ lpc' = "exists"
    /\ ltodo' = {}
    /\ lcur' = <<>>
    /\ lhas' = FALSE
    /\ lsessions' = <<>>
    /\ lseen' = [n \in Names |-> "unread"]
    /\ lresp' = [NoListResp EXCEPT !.w0 = nWrites]
    /\ UNCHANGED <<fsvars, nWrites, dvars, pvars, uivars>>

\* The missing-directory answer turned into "not found".
ListMissingDir_notfound == ListRespond(404, <<>>, "")

\* res.writeHead(200); res.end({ success: true, data: [], total: 0 })
ListMissingDir == ListRespond(200, <<>>, "")

\* if (!existsSync(analysisDir)) ...
ListExistsDir ==
    /\ lpc = "exists"
    /\ IF adir = "missing"
       THEN ListMissingDir
       ELSE lpc' = "readdir" /\ UNCHANGED lresp
    /\ UNCHANGED <<ltodo, lcur, lhas, lsessions, lseen>>
    /\ UNCHANGED <<fsvars, nWrites, dvars, pvars, uivars>>

\* const folders = await readdir(analysisDir): the names of all children, or
\* an exception that the handler's catch answers with a 500
ListReaddir ==
    /\ lpc = "readdir"
    /\ IF adir = "dir"
       THEN /\ ltodo' = {n \in Names : entry[n] # "none"}
            /\ lpc' = "loop"
            /\ UNCHANGED lresp
       ELSE /\ ListRespond(500, <<>>, "readdir")
            /\ UNCHANGED ltodo
    /\ UNCHANGED <<lcur, lhas, lsessions, lseen>>
    /\ UNCHANGED <<fsvars, nWrites, dvars, pvars, uivars>>

\* await stat(path) rejects when nothing is there (stat follows links).
statRejects(kind) == kind \in {"none", "dangling"}

\* folderStat.isDirectory()
isDirectory(kind) == kind = "dir"

\* for (const folder of folders): getSessionSummary up to the end of its stat.
\* readdir promises no order, so the next folder is any one not yet visited.
ListStat(folder) ==
    /\ lpc = "loop"
    /\ folder \in ltodo
    /\ ltodo' = ltodo \ {folder}
    /\ IF ~parseSessionId(folder).ok
       THEN \* if (!parsed) return null
            /\ lpc' = "loop"
            /\ UNCHANGED <<lcur, lresp>>
       ELSE IF statRejects(EntryOf(folder))
       THEN \* await stat(sessionPath) rejects; nothing catches it before the handler
            /\ ListRespond(500, <<>>, "stat")
            /\ UNCHANGED lcur
       ELSE IF ~isDirectory(EntryOf(folder))
       THEN \* if (!folderStat.isDirectory()) return null
            /\ lpc' = "loop"
            /\ UNCHANGED <<lcur, lresp>>
       ELSE /\ lpc' = "has"
            /\ lcur' = folder
            /\ UNCHANGED lresp
    /\ UNCHANGED <<lhas, lsessions, lseen>>
    /\ UNCHANGED <<fsvars, nWrites, dvars, pvars, uivars>>

\* const hasConclusions = existsSync(conclusionsPath);
\* const conclusions = hasConclusions ? await readJsonFile(...) : null
ListHasConclusions ==
    /\ lpc = "has"
    /\ IF existsSync(FileAt(lcur, "conclusions.json"))
       THEN /\ lhas' = TRUE
            /\ lpc' = "exists2"
            /\ UNCHANGED <<ltodo, lcur, lsessions, lseen, lresp>>
       ELSE ListPush(FALSE, NullDoc, "absent")
    /\ UNCHANGED <<fsvars, nWrites, dvars, pvars, uivars>>

\* readJsonFile: if (!existsSync(filePath)) return null
ListExists2 ==
    /\ lpc = "exists2"
    /\ IF existsSync(FileAt(lcur, "conclusions.json"))
       THEN /\ lpc' = "read"
            /\ UNCHANGED <<ltodo, lcur, lhas, lsessions, lseen, lresp>>
       ELSE ListPush(lhas, NullDoc, "absent")
    /\ UNCHANGED <<fsvars, nWrites, dvars, pvars, uivars>>

\* readJsonFile: readFile and JSON.parse inside the try
ListRead ==
    /\ lpc = "read"
    /\ LET st == FileAt(lcur, "conclusions.json")
           r == readJsonFile(st)
       IN  IF r.thrown
           THEN /\ ListRespond(500, <<>>, "read")
                /\ UNCHANGED <<ltodo, lcur, lhas, lsessions, lseen>>
           ELSE ListPush(lhas, r.val, ReadOutcome(st))
    /\ UNCHANGED <<fsvars, nWrites, dvars, pvars, uivars>>

\* sessions.sort(...); 200 with { success: true, data: sessions, total }
ListFinish ==
    /\ lpc = "loop"
    /\ ltodo = {}
    /\ ListRespond(200, SortSessions(lsessions), "")
    /\ UNCHANGED <<ltodo, lcur, lhas, lsessions, lseen>>
    /\ UNCHANGED <<fsvars, nWrites, dvars, pvars, uivars>>

ListNext ==
    \/ ListBegin
    \/ ListExistsDir
    \/ ListReaddir
    \/ \E folder \in Names : ListStat(folder)
    \/ ListHasConclusions
    \/ ListExists2
    \/ ListRead
    \/ ListFinish

\* ---------------------------------------------------------- detail request
HexDigits == Digits \cup {"A", "B", "C", "D", "E", "F", "a", "b", "c", "d", "e", "f"}

\* The character a %XX escape stands for (the ASCII escapes the requests use).
PercentChar(h1, h2) ==
    CASE <<h1, h2>> = <<"2", "D">> -> "-"
      [] <<h1, h2>> = <<"2", "E">> -> "."
      [] <<h1, h2>> = <<"2", "F">> -> "/"
      [] <<h1, h2>> = <<"2", "0">> -> " "
      [] OTHER -> "?"

\* decodeURIComponent: every %XX becomes its character; a "%" not followed by
\* two hexadecimal digits is a URIError.
RECURSIVE decodeURIComponent(_)
decodeURIComponent(s) ==
    IF s = <<>> THEN [thrown |-> FALSE, s |-> <<>>]
    ELSE IF Head(s) # "%"
    THEN LET rest == decodeURIComponent(Tail(s))
         IN  [thrown |-> rest.thrown, s |-> <<Head(s)>> \o rest.s]
    ELSE IF Len(s) < 3 \/ s[2] \notin HexDigits \/ s[3] \notin HexDigits
    THEN [thrown |-> TRUE, s |-> <<>>]
    ELSE LET rest == decodeURIComponent(SubSeq(s, 4, Len(s)))
         IN  [thrown |-> rest.thrown, s |-> <<PercentChar(s[2], s[3])>> \o rest.s]

\* Path segments a client asks for: every child name, the first one with its
\* first dash escaped, a well-formed name of no child, a broken escape, and a
\* name that climbs out of the analysis directory.
EscapedName1 == <<"A", "N", "L", "%", "2", "D">> \o SubSeq(Name1, 5, Len(Name1))
AbsentName == ANL \o <<"z", "-">> \o Date_2026_02_15
BrokenEscape == ANL \o <<"%">>
\* "ANL-a/../../x-2026-01-01" with each "/" escaped
ClimbingName == ANL \o <<"a", "%", "2", "F", ".", ".", "%", "2", "F", ".", ".", "%", "2", "F">>
                    \o OutsideName
RawIds == Names \cup {EscapedName1, AbsentName, BrokenEscape, ClimbingName}

NoDetail == [id |-> <<>>, name |-> <<>>, topic |-> Undefined, createdAt |-> <<>>,
             status |-> "", discussion |-> NullDoc, conclusions |-> NullDoc,
             explorations |-> NullDoc, perspectives |-> NullDoc]
NoDetailResp == [code |-> 0, data |-> NoDetail, w0 |-> 0, w1 |-> 0]

NoRead == [pc |-> "idle", thrown |-> FALSE, val |-> NullDoc]
NoReads == [a \in Artifacts |-> NoRead]

DetailRespond(code, data) ==
    /\ dresp' = [code |-> code, data |-> data, w0 |-> nWrites, w1 |-> nWrites]
    /\ dpc' = "done"

\* existsSync(join(analysisDir, sessionId)) treated as always true.
SessionPathExists_always(sessionId) == TRUE

\* existsSync(join(analysisDir, sessionId)): existsSync follows links
SessionPathExists(sessionId) == KindAt(SessionPath(sessionId)) \in {"dir", "file"}

\* GET /api/analysis/:id arrives: decodeURIComponent, then getSessionDetail up
\* to the point where the four reads are started
DetailBegin(raw) ==
    /\ Idle(lpc) /\ Idle(dpc)
    /\ draw' = raw
    /\ LET dec == decodeURIComponent(raw)
       IN  IF dec.thrown
           THEN \* URIError, caught by the handler
                /\ dsid' = <<>>
                /\ dreads' = NoReads
                /\ DetailRespond(500, NoDetail)
           ELSE IF ~parseSessionId(dec.s).ok \/ ~SessionPathExists(dec.s)
           THEN \* getSessionDetail returns null
                /\ dsid' = dec.s
                /\ dreads' = NoReads
                /\ DetailRespond(404, NoDetail)
           ELSE /\ dsid' = dec.s
                /\ dreads' = [a \in Artifacts |-> [NoRead EXCEPT !.pc = "exists"]]
                /\ dresp' = [NoDetailResp EXCEPT !.w0 = nWrites]
                /\ dpc' = "reads"
    /\ UNCHANGED <<fsvars, nWrites, lvars, pvars, uivars>>

\* The existsSync of the i-th reader call: the four calls are made in order,
\* each running up to its first await
DetailExists(i) ==
    /\ dpc = "reads"
    /\ dreads[ArtifactSeq[i]].pc = "exists"
    /\ \A j \in 1..(i - 1) : dreads[ArtifactSeq[j]].pc # "exists"
    /\ dreads' = [dreads EXCEPT ![ArtifactSeq[i]] =
                     IF existsSync(FileAtPath(ArtifactPath(dsid, ArtifactSeq[i])))
                     THEN [@ EXCEPT !.pc = "read"]
                     ELSE [pc |-> "done", thrown |-> FALSE, val |-> NullDoc]]
    /\ UNCHANGED <<dpc, draw, dsid, dresp>>
    /\ UNCHANGED <<fsvars, nWrites, lvars, pvars, uivars>>

\* The readFile of one reader call completes, at any time after its existsSync
DetailRead(a) ==
    /\ dpc = "reads"
    /\ dreads[a].pc = "read"
    /\ LET st == FileAtPath(ArtifactPath(dsid, a))
           r == IF a = "discussion.md" THEN readTextFile(st) ELSE readJsonFile(st)
       IN  dreads' = [dreads EXCEPT ![a] =
                         [pc |-> "done", thrown |-> r.thrown, val |-> r.val]]
    /\ UNCHANGED <<dpc, draw, dsid, dresp>>
    /\ UNCHANGED <<fsvars, nWrites, lvars, pvars, uivars>>

\* status: conclusions ? 'completed' : 'in_progress'
DetailStatus(conclusions) ==
    IF DocTruthy(conclusions) THEN "completed" ELSE "in_progress"

\* The object getSessionDetail returns, with the third and fourth results of
\* Promise.all bound to each other's names.
Detail_swapped(sessionId, parsed, discussion, conclusions, explorations, perspectives) ==
    [id |-> sessionId,
     name |-> sessionId,
     topic |-> TopicOf(conclusions, parsed),
     createdAt |-> parsed.date,
     status |-> DetailStatus(conclusions),
     discussion |-> discussion,
     conclusions |-> conclusions,
     explorations |-> perspectives,
     perspectives |-> explorations]

\* The object getSessionDetail returns.
Detail(sessionId, parsed, discussion, conclusions, explorations, perspectives) ==
    [id |-> sessionId,
     name |-> sessionId,
     topic |-> TopicOf(conclusions, parsed),
     createdAt |-> parsed.date,
     status |-> DetailStatus(conclusions),
     discussion |-> discussion,
     conclusions |-> conclusions,
     explorations |-> explorations,
     perspectives |-> perspectives]

\* Promise.all settles: a rejection reaches the handler's catch (500), else
\* the detail record is sent (200)
DetailFinish ==
    /\ dpc = "reads"
    /\ \A a \in Artifacts : dreads[a].pc = "done"
    /\ dpc' = "done"
    /\ IF \E a \in Artifacts : dreads[a].thrown
       THEN dresp' = [dresp EXCEPT !.code = 500, !.w1 = nWrites]
       ELSE dresp' = [dresp EXCEPT
                        !.code = 200,
                        !.w1 = nWrites,
                        !.data = Detail(dsid, parseSessionId(dsid),
                                        dreads["discussion.md"].val,
                                        dreads["conclusions.json"].val,
                                        dreads["explorations.json"].val,
                                        dreads["perspectives.json"].val)]
    /\ UNCHANGED <<draw, dsid, dreads>>
    /\ UNCHANGED <<fsvars, nWrites, lvars, pvars, uivars>>

DetailNext ==
    \/ \E raw \in RawIds : DetailBegin(raw)
    \/ \E i \in 1..4 : DetailExists(i)
    \/ \E a \in Artifacts : DetailRead(a)
    \/ DetailFinish

\* ---------------------------------------------------------- external writer
\* The analysis workflow and the user change the directory while requests
\* run: a session folder is removed, an artifact is removed, an artifact is
\* cut short in the middle of being rewritten, the whole directory is removed.
InFlight == ~Idle(lpc) \/ ~Idle(dpc)

WriterRemoveSession(n) ==
    /\ nWrites < MaxWrites
    /\ InFlight
    /\ EntryOf(n) # "none"
    /\ entry' = [entry EXCEPT ![n] = "none"]
    /\ files' = [files EXCEPT ![n] = NoFiles]
    /\ nWrites' = nWrites + 1
    /\ UNCHANGED <<adir, lvars, dvars, pvars, uivars>>

WriterRemoveArtifact(n, a) ==
    /\ nWrites < MaxWrites
    /\ InFlight
    /\ FileAt(n, a) # "ENOENT"
    /\ files' = [files EXCEPT ![n][a] = "ENOENT"]
    /\ nWrites' = nWrites + 1
    /\ UNCHANGED <<adir, entry, lvars, dvars, pvars, uivars>>

WriterTruncateArtifact(n, a) ==
    /\ nWrites < MaxWrites
    /\ InFlight
    /\ FileAt(n, a) \notin {"ENOENT", "EACCES"}
    /\ Truncated(FileAt(n, a)) # FileAt(n, a)
    /\ files' = [files EXCEPT ![n][a] = Truncated(@)]
    /\ nWrites' = nWrites + 1
    /\ UNCHANGED <<adir, entry, lvars, dvars, pvars, uivars>>

WriterRemoveAnalysisDir ==
    /\ nWrites < MaxWrites
    /\ InFlight
    /\ adir = "dir"
    /\ adir' = "missing"
    /\ entry' = [n \in Names |-> "none"]
    /\ files' = [n \in Names |-> NoFiles]
    /\ nWrites' = nWrites + 1
    /\ UNCHANGED <<lvars, dvars, pvars, uivars>>

WriterNext ==
    \/ \E n \in Names : WriterRemoveSession(n)
    \/ \E n \in Names, a \in Artifacts : WriterRemoveArtifact(n, a)
    \/ \E n \in Names, a \in Artifacts : WriterTruncateArtifact(n, a)
    \/ WriterRemoveAnalysisDir

\* ------------------------------------------------------------- parser runs
\* Folder names put together from a prefix, a slug, a separator, a date token
\* and a suffix, right and wrong ones of each.
RECURSIVE SeqsUpTo(_, _)
SeqsUpTo(S, n) ==
    IF n = 0 THEN {<<>>}
    ELSE SeqsUpTo(S, n - 1) \cup
         {Append(q, c) : q \in {r \in SeqsUpTo(S, n - 1) : Len(r) = n - 1}, c \in S}

PrefixParts == {ANL, <<"A", "N", "L">>, <<"a", "n", "l", "-">>, <<"X">> \o ANL}
SlugChars == {"a", "-", "\n"}
SlugParts == SeqsUpTo(SlugChars, MaxSlugLen) \cup
             {Date_2026_02_15 \o q : q \in SeqsUpTo(SlugChars, MaxSlugLen)}
SepParts == {<<"-">>, <<"_">>, <<>>}
DateParts == {Date_2026_01_01, Date_2025_12_31,
              <<"2", "0", "2", "6", "-", "1", "-", "0", "1">>,
              <<"2", "0", "2", "6", "-", "0", "1", "-", "0", "a">>,
              <<"2", "0", "2", "6", "0", "1", "0", "1">>}
SuffixParts == {<<>>, <<"x">>, <<"\n">>}
ParserInputs ==
    {p \o sl \o se \o d \o su :
        p \in PrefixParts, sl \in SlugParts, se \in SepParts, d \in DateParts,
        su \in SuffixParts}

NotParsed == [ok |-> FALSE, slug |-> <<"?">>, date |-> <<>>]

\* One call of parseSessionId on the name given.
Parse ==
    /\ presult = NotParsed
    /\ presult' = parseSessionId(pname)
    /\ UNCHANGED <<pname, fsvars, nWrites, lvars, dvars, uivars>>

\* ------------------------------------------------------------- JSON values
\* A parsed JSON value: t is its type; s holds the characters of a string,
\* the digits of a number or the word of a boolean; keys holds the keys of an
\* object in insertion order; items holds the elements of an array, or the
\* values of an object's entries in the order of keys.
Value(t, s, keys, items) == [t |-> t, s |-> s, keys |-> keys, items |-> items]

\* typeof value === 'object'
typeofObject(value) == value.t \in {"null", "array", "object"}

isObject(value) == typeofObject(value) /\ value.t # "null" /\ value.t # "array"

isArray(value) == value.t = "array"

\* String(value): an array gives its elements' conversions joined by ",",
\* with nothing for a null element; an object gives "[object Object]".
RECURSIVE String(_)
String(value) ==
    CASE value.t = "null" -> <<"n", "u", "l", "l">>
      [] value.t = "object" ->
            <<"[", "o", "b", "j", "e", "c", "t", " ", "O", "b", "j", "e", "c", "t", "]">>
      [] value.t = "array" ->
            LET RECURSIVE joined(_)
                joined(i) ==
                    IF i > Len(value.items) THEN <<>>
                    ELSE (IF i > 1 THEN <<",">> ELSE <<>>)
                         \o (IF value.items[i].t = "null" THEN <<>>
                             ELSE String(value.items[i]))
                         \o joined(i + 1)
            IN  joined(1)
      [] OTHER -> value.s

\* ------------------------------------------------------------- formatLabel
LowerCase == <<"a", "b", "c", "d", "e", "f", "g", "h", "i", "j", "k", "l", "m",
               "n", "o", "p", "q", "r", "s", "t", "u", "v", "w", "x", "y", "z">>
UpperCase == <<"A", "B", "C", "D", "E", "F", "G", "H", "I", "J", "K", "L", "M",
               "N", "O", "P", "Q", "R", "S", "T", "U", "V", "W", "X", "Y", "Z">>

\* String.prototype.toUpperCase and toLowerCase, character by character
toUpperCase(s) ==
    [i \in 1..Len(s) |->
        IF \E k \in 1..26 : LowerCase[k] = s[i]
        THEN UpperCase[CHOOSE k \in 1..26 : LowerCase[k] = s[i]]
        ELSE s[i]]

toLowerCase(s) ==
    [i \in 1..Len(s) |->
        IF \E k \in 1..26 : UpperCase[k] = s[i]
        THEN LowerCase[CHOOSE k \in 1..26 : UpperCase[k] = s[i]]
        ELSE s[i]]

\* String.prototype.trim: white space is taken from both ends
RECURSIVE trim(_)
trim(s) ==
    IF s = <<>> THEN s
    ELSE IF Head(s) \in {" ", "\n", "\r", "\t"} THEN trim(Tail(s))
    ELSE IF s[Len(s)] \in {" ", "\n", "\r", "\t"} THEN trim(SubSeq(s, 1, Len(s) - 1))
    ELSE s

\* key.replace(/_/g, ' ').replace(/([A-Z])/g, ' $1')
\*    .replace(/^./, str => str.toUpperCase()).trim()
formatLabel(key) ==
    LET RECURSIVE spaced(_)
        spaced(s) ==
            IF s = <<>> THEN <<>>
            ELSE (IF Head(s) = "_" THEN <<" ">>
                  ELSE IF \E k \in 1..26 : UpperCase[k] = Head(s) THEN <<" ", Head(s)>>
                  ELSE <<Head(s)>>) \o spaced(Tail(s))
        words == spaced(key)
        capitalized ==
            IF words = <<>> \/ Head(words) \in LineTerminators THEN words
            ELSE toUpperCase(<<Head(words)>>) \o Tail(words)
    IN  trim(capitalized)

\* ------------------------------------------------------------ JsonCardView
\* A rendered element: tag names what it is, text is the text it shows,
\* path is the place in the data of the value it shows (the positions taken
\* from the root), depth is the depth prop of an ObjectView or CardItem, open
\* is the expanded state of an indexed list, kids are the elements inside.
Element(tag, text, path, depth, open, kids) ==
    [tag |-> tag, text |-> text, path |-> path, depth |-> depth, open |-> open,
     kids |-> kids]

Leaf(tag, text, path) == Element(tag, text, path, 0, FALSE, <<>>)

startsWith(s, prefix) == Len(s) >= Len(prefix) /\ SubSeq(s, 1, Len(prefix)) = prefix

\* The length above which a string is shown as a block.
LongText == 100

\* value.length >= 100
isLongText_atLeast(s) == Len(s) >= LongText

\* value.length > 100
isLongText(s) == Len(s) > LongText

\* PrimitiveValue: null, boolean, number, string (link, pre-wrapped block or
\* inline span), and String(value) for anything else
PrimitiveValue(value, path) ==
    CASE value.t = "null" -> Leaf("null", <<"n", "u", "l", "l">>, path)
      [] value.t = "boolean" -> Leaf("Badge", value.s, path)
      [] value.t = "number" -> Leaf("number", value.s, path)
      [] value.t = "string" ->
            IF \/ startsWith(value.s, <<"h", "t", "t", "p", ":", "/", "/">>)
               \/ startsWith(value.s, <<"h", "t", "t", "p", "s", ":", "/", "/">>)
            THEN Leaf("a", value.s, path)
            ELSE IF isLongText(value.s)
            THEN Leaf("pre-wrap", value.s, path)
            ELSE Leaf("span", value.s, path)
      [] OTHER -> Leaf("String", String(value), path)

\* items.every(item => typeof item !== 'object'), null not let through
allPrimitives_notNull(items) ==
    \A i \in 1..Len(items) : ~typeofObject(items[i])

\* items.every(item => typeof item !== 'object' || item === null)
allPrimitives(items) ==
    \A i \in 1..Len(items) : ~typeofObject(items[i]) \/ items[i].t = "null"

RECURSIVE ArrayView(_, _, _), ObjectView(_, _, _, _), CardItem(_, _, _, _, _)

\* ArrayView: st holds the expanded state of the lists mounted before this
\* render; a list mounted by this render starts from useState(true). The
\* entry of the element at index i - 1 is labelled `#${index + 1}`
ArrayView(items, path, st) ==
    IF Len(items) = 0 THEN Leaf("Empty list", <<>>, path)
    ELSE IF allPrimitives(items)
    THEN Element("badges", <<>>, path, 0, FALSE,
                 [i \in 1..Len(items) |->
                     Leaf("Badge", String(items[i]), Append(path, i))])
    ELSE LET expanded == IF path \in DOMAIN st THEN st[path] ELSE TRUE
         IN  Element("list", <<>>, path, 0, expanded,
                     IF ~expanded THEN <<>>
                     ELSE [i \in 1..Len(items) |->
                              Element("entry", <<"#", ToString(i)>>, Append(path, i), 0, FALSE,
                                      <<IF isObject(items[i])
                                        THEN ObjectView(items[i], 0, Append(path, i), st)
                                        ELSE PrimitiveValue(items[i], Append(path, i))>>)])

\* ObjectView
ObjectView(data, depth, path, st) ==
    IF Len(data.keys) = 0 THEN Leaf("Empty object", <<>>, path)
    ELSE Element("object", <<>>, path, depth, FALSE,
                 [i \in 1..Len(data.keys) |->
                     CardItem(formatLabel(data.keys[i]), data.items[i], depth,
                              Append(path, i), st)])

\* CardItem
CardItem(label, value, depth, path, st) ==
    Element("CardItem", label, path, depth, FALSE,
            <<IF isObject(value) THEN ObjectView(value, depth + 1, path, st)
              ELSE IF isArray(value) THEN ArrayView(value.items, path, st)
              ELSE PrimitiveValue(value, path)>>)

\* JsonCardView
JsonCardView(data, st) ==
    IF data.t = "null" THEN Leaf("No data available", <<>>, <<>>)
    ELSE IF isArray(data) THEN ArrayView(data.items, <<>>, st)
    ELSE ObjectView(data, 0, <<>>, st)

\* Every element of a rendered tree.
RECURSIVE Elements(_)
Elements(el) == {el} \cup UNION {Elements(el.kids[i]) : i \in 1..Len(el.kids)}

\* The expanded state the mounted indexed lists hold after a render.
ExpandedState(view) ==
    LET lists == {el \in Elements(view) : el.tag = "list"}
    IN  [p \in {el.path : el \in lists} |->
            (CHOOSE el \in lists : el.path = p).open]

NotMounted == Leaf("", <<>>, <<>>)

\* The component is mounted with its data
Mount ==
    /\ rview = NotMounted
    /\ rview' = JsonCardView(rdata, rexpanded)
    /\ rexpanded' = ExpandedState(rview')
    /\ UNCHANGED <<rdata, qstatus, qsessions, searchQuery, pcontent>>
    /\ UNCHANGED <<fsvars, nWrites, lvars, dvars, pvars>>

\* The button of the indexed list at path is clicked: setExpanded(!expanded),
\* and the render that follows
ToggleExpanded(path) ==
    /\ path \in DOMAIN rexpanded
    /\ rview' = JsonCardView(rdata, [rexpanded EXCEPT ![path] = ~@])
    /\ rexpanded' = ExpandedState(rview')
    /\ UNCHANGED <<rdata, qstatus, qsessions, searchQuery, pcontent>>
    /\ UNCHANGED <<fsvars, nWrites, lvars, dvars, pvars>>

\* -------------------------------------------------------- rendered inputs
\* Longest array of scalars among the data rendered.
MaxItems == 2
\* Longest key given to formatLabel.
MaxKeyLen == 3

JNull == Value("null", <<>>, <<>>, <<>>)
JArray(items) == Value("array", <<>>, <<>>, items)
JObject(keys, items) == Value("object", <<>>, keys, items)

\* The sequences over S of length at most n.
SeqsOver(S, n) == UNION {[1..k -> S] : k \in 0..n}

\* The data the renders below are given: nothing, arrays and objects up to
\* four levels deep, and, as a field and as a list element, every kind of
\* primitive with strings on both sides of every test PrimitiveValue makes.
RenderInputs ==
    LET key1 == <<"i", "d">>
        key2 == <<"s", "u", "b", "_", "k", "e", "y">>
        x(n) == [i \in 1..n |-> "x"]
        strings ==
            {<<>>, <<"h", "i">>, <<"h", "t", "t", "p", ":", "/">>,
             <<"h", "t", "t", "p", ":", "/", "/", "a">>,
             <<"h", "t", "t", "p", "s", ":", "/", "/", "a">>,
             <<"h", "t", "t", "p", "s", ":", "/", "/">> \o x(LongText),
             x(LongText - 1), x(LongText), x(LongText + 1)}
        primitives ==
            {JNull, Value("boolean", <<"t", "r", "u", "e">>, <<>>, <<>>),
             Value("boolean", <<"f", "a", "l", "s", "e">>, <<>>, <<>>),
             Value("number", <<"4", "2">>, <<>>, <<>>)}
              \cup {Value("string", s, <<>>, <<>>) : s \in strings}
        scalars == {JNull, Value("number", <<"1">>, <<>>, <<>>),
                    Value("string", <<"h", "i">>, <<>>, <<>>)}
        flat == {JArray(items) : items \in SeqsOver(scalars, MaxItems)}
                  \cup {JObject(SubSeq(<<key1, key2>>, 1, Len(items)), items) :
                           items \in SeqsOver(scalars, 2)}
        wrap(S) == {JArray(<<v>>) : v \in S} \cup {JObject(<<key1>>, <<v>>) : v \in S}
        pair(S) == {JArray(items) : items \in SeqsOver(S, 2)}
                      \cup {JObject(SubSeq(<<key1, key2>>, 1, Len(items)), items) :
                               items \in SeqsOver(S, 2)}
    IN  {JNull}
          \cup pair(scalars \cup flat \cup wrap(flat))
          \cup wrap(wrap(wrap(flat)))
          \cup {JObject(<<key1>>, <<p>>) : p \in primitives}
          \cup {JArray(<<p, JObject(<<>>, <<>>)>>) : p \in primitives}

\* ------------------------------------------------------------ AnalysisPage
\* Most sessions the session query returns.
MaxSessions == 2

\* String.prototype.includes
includes(s, search) ==
    \E k \in 0..(Len(s) - Len(search)) : SubSeq(s, k + 1, k + Len(search)) = search

\* The filter's test with the comparison of the id left out.
matchesSearch_topicOnly(session, query) ==
    includes(toLowerCase(session.topic.s), toLowerCase(query))

\* session.topic.toLowerCase().includes(searchQuery.toLowerCase()) ||
\* session.id.toLowerCase().includes(searchQuery.toLowerCase())
matchesSearch(session, query) ==
    \/ includes(toLowerCase(session.topic.s), toLowerCase(query))
    \/ includes(toLowerCase(session.id), toLowerCase(query))

\* sessions.filter(...)
filteredSessions(sessions, query) ==
    SelectSeq(sessions, LAMBDA session : matchesSearch(session, query))

\* The content area: the spinner, the error card, the empty-state card, or
\* the grid with one SessionCard per filtered session
PageContent(isLoading, error, filtered) ==
    [loading |-> isLoading,
     error |-> ~isLoading /\ error,
     empty |-> ~isLoading /\ ~error /\ Len(filtered) = 0,
     grid |-> ~isLoading /\ ~error /\ Len(filtered) # 0,
     cards |-> IF ~isLoading /\ ~error /\ Len(filtered) # 0
               THEN [i \in 1..Len(filtered) |-> filtered[i].id]
               ELSE <<>>]

\* The render that follows every change of the query or of the search text
PageRender ==
    pcontent' = PageContent(qstatus' = "pending", qstatus' = "error",
                            filteredSessions(qsessions', searchQuery'))

\* Summaries the list request returns.
PageSessions ==
    {Summary(Name1, parseSessionId(Name1), TRUE, JSONParse(TxtTopic).doc),
     Summary(Name1, parseSessionId(Name1), FALSE, NullDoc),
     Summary(Name2, parseSessionId(Name2), FALSE, NullDoc),
     Summary(Name4, parseSessionId(Name4), TRUE, JSONParse(TxtNoTopic).doc)}

\* fetchAnalysisSessions resolves (the first fetch or a refetch)
QuerySucceeds(sessions) ==
    /\ qstatus # "idle"
    /\ qstatus' = "success"
    /\ qsessions' = sessions
    /\ UNCHANGED searchQuery
    /\ PageRender
    /\ UNCHANGED <<rdata, rexpanded, rview>>
    /\ UNCHANGED <<fsvars, nWrites, lvars, dvars, pvars>>

\* fetchAnalysisSessions rejects: the data of an earlier success is kept
QueryFails ==
    /\ qstatus # "idle"
    /\ qstatus' = "error"
    /\ UNCHANGED <<qsessions, searchQuery>>
    /\ PageRender
    /\ UNCHANGED <<rdata, rexpanded, rview>>
    /\ UNCHANGED <<fsvars, nWrites, lvars, dvars, pvars>>

\* projectPath changes: a query with a new key starts, without data
ProjectPathChanges ==
    /\ qstatus \in {"success", "error"}
    /\ qstatus' = "pending"
    /\ qsessions' = <<>>
    /\ UNCHANGED searchQuery
    /\ PageRender
    /\ UNCHANGED <<rdata, rexpanded, rview>>
    /\ UNCHANGED <<fsvars, nWrites, lvars, dvars, pvars>>

\* onChange of the search box: setSearchQuery(e.target.value)
SetSearchQuery(text) ==
    /\ qstatus # "idle"
    /\ searchQuery' = text
    /\ UNCHANGED <<qstatus, qsessions>>
    /\ PageRender
    /\ UNCHANGED <<rdata, rexpanded, rview>>
    /\ UNCHANGED <<fsvars, nWrites, lvars, dvars, pvars>>

\* JsonCardView is not mounted.
NoRender == rdata = JNull /\ rexpanded = ExpandedState(NotMounted) /\ rview = NotMounted

\* AnalysisPage is not mounted.
NoQuery ==
    /\ qstatus = "idle" /\ qsessions = <<>> /\ searchQuery = <<>>
    /\ pcontent = [loading |-> FALSE, error |-> FALSE, empty |-> FALSE,
                   grid |-> FALSE, cards |-> <<>>]

NoPage == NoRender /\ NoQuery

\* ------------------------------------------------------------ initial states
NoRequests ==
    /\ nWrites = 0
    /\ lpc = "idle" /\ ltodo = {} /\ lcur = <<>> /\ lhas = FALSE
    /\ lsessions = <<>> /\ lseen = [n \in Names |-> "unread"]
    /\ lresp = NoListResp
    /\ dpc = "idle" /\ draw = <<>> /\ dsid = <<>> /\ dreads = NoReads
    /\ dresp = NoDetailResp

NoParse == pname = <<>> /\ presult = NoIdentity

\* A session folder holding only a conclusions file in state st.
OnlyConclusions(st) == [NoFiles EXCEPT !["conclusions.json"] = st]

\* A child: what it is, and the files in it when it is a directory.
Child(kind, fs) == [kind |-> kind, files |-> fs]
NotDirs(kinds) == {Child(k, NoFiles) : k \in kinds}
Sessions(states) == {Child("dir", OnlyConclusions(st)) : st \in states}

\* The directories the list runs start from: the first session in the states
\* of its conclusions file, the others present for the ordering.
ListChildren ==
    [n \in Names |->
        CASE n = Name1 -> NotDirs({"none", "file", "dangling"}) \cup
                          Sessions({"ENOENT", "EACCES", TxtCut, TxtTopic,
                                    TxtNumTopic})
          [] n = Name2 -> NotDirs({"none"}) \cup Sessions({TxtTopic})
          [] n = Name3 -> NotDirs({"none", "dangling"}) \cup Sessions({TxtTopic})
          [] n = Name4 -> NotDirs({"none"}) \cup Sessions({"ENOENT"})
          [] n = Junk -> NotDirs({"none", "file", "dangling"})]

\* The directories the detail runs start from: the first session with its
\* four artifacts in their states, and a second child that is no directory.
DetailFolders ==
    {[a \in Artifacts |->
         CASE a = "discussion.md" -> d
           [] a = "conclusions.json" -> c
           [] a = "explorations.json" -> e
           [] a = "perspectives.json" -> p] :
        d \in {"ENOENT", "EACCES", TxtDiscussion},
        c \in {"ENOENT", "EACCES", TxtCut, TxtNoTopic, TxtTopic, TxtNumTopic,
               TxtNull},
        e \in {"ENOENT", TxtCut, TxtNoTopic},
        p \in {"ENOENT", TxtTopic}}

DetailChildren ==
    [n \in Names |->
        CASE n = Name1 -> NotDirs({"none", "dangling"}) \cup
                          {Child("dir", fs) : fs \in DetailFolders}
          [] n = Name2 -> NotDirs({"none", "file"})
          [] n = Junk -> NotDirs({"none", "file"})
          [] OTHER -> NotDirs({"none"})]

\* The directories the runs of both requests start from.
BothChildren ==
    [n \in Names |->
        CASE n = Name1 -> NotDirs({"none", "file"}) \cup
                          Sessions({"ENOENT", "EACCES", TxtCut, TxtNoTopic,
                                    TxtTopic, TxtNumTopic})
          [] n = Name2 -> NotDirs({"none"}) \cup Sessions({TxtTopic})
          [] n = Name4 -> NotDirs({"none"}) \cup Sessions({"ENOENT"})
          [] n = Junk -> NotDirs({"none", "dir"})
          [] OTHER -> NotDirs({"none"})]

InitFS(children) ==
    \/ /\ adir \in {"missing", "file"}
       /\ entry = [n \in Names |-> "none"]
       /\ files = [n \in Names |-> NoFiles]
    \/ /\ adir = "dir"
       /\ \E c1 \in children[Name1], c2 \in children[Name2], c3 \in children[Name3],
             c4 \in children[Name4], cj \in children[Junk] :
             LET c == [n \in Names |->
                          CASE n = Name1 -> c1 [] n = Name2 -> c2 [] n = Name3 -> c3
                            [] n = Name4 -> c4 [] n = Junk -> cj]
             IN  /\ entry = [n \in Names |-> c[n].kind]
                 /\ files = [n \in Names |-> c[n].files]

InitList == InitFS(ListChildren) /\ NoRequests /\ NoParse /\ NoPage

SpecList == InitList /\ [][ListNext \/ WriterNext]_vars

InitDetail == InitFS(DetailChildren) /\ NoRequests /\ NoParse /\ NoPage

SpecDetail == InitDetail /\ [][DetailNext \/ WriterNext]_vars

Init == InitFS(BothChildren) /\ NoRequests /\ NoParse /\ NoPage

Next == ListNext \/ DetailNext

Spec == Init /\ [][Next]_vars

InitParse ==
    /\ adir = "missing"
    /\ entry = [n \in Names |-> "none"]
    /\ files = [n \in Names |-> NoFiles]
    /\ NoRequests
    /\ pname \in ParserInputs
    /\ presult = NotParsed
    /\ NoPage

SpecParse == InitParse /\ [][Parse]_vars

\* No request was made and nothing was parsed.
NoServer ==
    /\ adir = "missing"
    /\ entry = [n \in Names |-> "none"]
    /\ files = [n \in Names |-> NoFiles]
    /\ NoRequests /\ NoParse

\* JsonCardView is given some data, then mounted, then its lists are toggled.
InitRender ==
    /\ NoServer /\ NoQuery
    /\ rdata \in RenderInputs
    /\ rexpanded = ExpandedState(NotMounted)
    /\ rview = NotMounted

SpecRender ==
    InitRender /\ [][Mount \/ \E path \in DOMAIN rexpanded : ToggleExpanded(path)]_vars

\* JsonCardView is given an object with one key.
InitLabel ==
    /\ NoServer /\ NoQuery
    /\ rdata \in {JObject(<<key>>, <<JNull>>) :
                     key \in SeqsOver({"a", "B", "_", "1"}, MaxKeyLen)}
    /\ rexpanded = ExpandedState(NotMounted)
    /\ rview = NotMounted

SpecLabel == InitLabel /\ [][Mount]_vars

\* AnalysisPage is mounted: the query is pending, the search box is empty.
InitPage ==
    /\ NoServer /\ NoRender
    /\ qstatus = "pending" /\ qsessions = <<>> /\ searchQuery = <<>>
    /\ pcontent = PageContent(TRUE, FALSE, <<>>)

PageNext ==
    \/ \E sessions \in SeqsOver(PageSessions, MaxSessions) : QuerySucceeds(sessions)
    \/ QueryFails
    \/ ProjectPathChanges
    \/ \E text \in {<<>>, <<"t">>, <<"a", "n", "l">>, <<"C">>, <<"a", " ", "b">>,
                    <<"A", "-", "B">>, <<"z">>} : SetSearchQuery(text)

SpecPage == InitPage /\ [][PageNext]_vars

\* ------------------------------------------------------------------ claims
\* The identity pattern, stated on positions of the name: the prefix, a
\* non-empty middle, a dash, and a date token as the last ten characters.
WellFormedName(name) ==
    /\ Len(name) >= 16
    /\ SubSeq(name, 1, 4) = ANL
    /\ name[Len(name) - 10] = "-"
    /\ IsDateToken(SubSeq(name, Len(name) - 9, Len(name)))

SlugPart(name) == SubSeq(name, 5, Len(name) - 11)

MatchesPattern(name) ==
    /\ WellFormedName(name)
    /\ \A i \in 1..Len(SlugPart(name)) : SlugPart(name)[i] \notin LineTerminators

\* The list response was sent and the file system is as it was when the
\* request began.
ListSettled == lresp.code # 0 /\ lresp.w0 = nWrites
DetailSettled == dresp.code # 0 /\ dresp.w0 = nWrites

ListedIds == {lresp.data[i].id : i \in 1..Len(lresp.data)}

\* C1: every summary of a list response has status 'completed' and
\* hasConclusions true exactly when the conclusions artifact existed and was
\* parsed; in every other case (absent, unreadable, malformed, removed between
\* check and read) it has status 'in_progress' and hasConclusions false.
C1_CompletedIffParsed ==
    lresp.code = 200 =>
        \A i \in 1..Len(lresp.data) :
            LET sm == lresp.data[i]
            IN  IF lseen[sm.id] = "parsed"
                THEN sm.status = "completed" /\ sm.hasConclusions
                ELSE sm.status = "in_progress" /\ ~sm.hasConclusions

\* C2: on an unchanged file system the detail record of a session has the
\* status and the topic of that session's list summary.
C2_DetailAgreesWithSummary ==
    (lresp.code = 200 /\ dresp.code = 200) =>
        \A i \in 1..Len(lresp.data) :
            lresp.data[i].id = dresp.data.id =>
                /\ lresp.data[i].status = dresp.data.status
                /\ lresp.data[i].topic = dresp.data.topic

\* C3: a failure while one child is processed never fails the list; the
\* internal-error outcome comes only from the directory enumeration.
C3_OnlyEnumerationFails ==
    lresp.code = 500 => lresp.cause = "readdir"

\* C4: the sessions of a list response are in descending createdAt order:
\* each entry's date is greater than or equal to the next entry's.
C4_SortedDescending ==
    lresp.code = 200 =>
        \A i \in 1..(Len(lresp.data) - 1) :
            localeCompare(lresp.data[i].createdAt, lresp.data[i + 1].createdAt) >= 0

\* Three sessions with three dates were listed, and sorting moved them.
C4_Witness ==
    /\ lresp.code = 200
    /\ Len(lresp.data) = 3
    /\ lresp.data # lsessions
    /\ Cardinality({lresp.data[i].createdAt : i \in 1..3}) = 3

\* C5: on an unchanged directory the list is a success holding exactly the
\* children whose name matches the pattern and that are directories, each
\* once; every other child is left out, and leaving it out is never an error.
C5_ExactlyMatchingDirectories ==
    (ListSettled /\ adir = "dir") =>
        /\ lresp.code = 200
        /\ ListedIds = {n \in Names : MatchesPattern(n) /\ entry[n] = "dir"}
        /\ Cardinality(ListedIds) = Len(lresp.data)
        /\ lresp.total = Len(lresp.data)

\* The part of C5 that the code keeps: the same, for a directory in which
\* stat succeeds on every child whose name matches the pattern.
C5_WhereStatSucceeds ==
    (\A n \in Names : entry[n] = "dangling" => ~MatchesPattern(n)) =>
        C5_ExactlyMatchingDirectories

ExpectedRead(a, st) ==
    IF st \in {"ENOENT", "EACCES"} THEN NullDoc
    ELSE IF a = "discussion.md" THEN TextDoc(st)
    ELSE IF st \in {TxtTopic, TxtNoTopic, TxtNumTopic, TxtNull} THEN JSONParse(st).doc
    ELSE NullDoc

\* C7: whenever a reader call ends, it ends without raising, with the file's
\* value or absent, and with the file system as it was; this includes a file
\* removed or cut short after the existence check.
C7_ReadersNeverRaise ==
    [][\A a \in Artifacts :
          (dreads[a].pc \in {"exists", "read"} /\ dreads'[a].pc = "done") =>
              /\ ~dreads'[a].thrown
              /\ dreads'[a].val = ExpectedRead(a, FileAtPath(ArtifactPath(dsid, a)))
              /\ UNCHANGED fsvars]_vars

\* A detail request during which the writer acted: the conclusions read came
\* back absent from a file that now is cut short or gone, the explorations
\* read came back with a value.
C7_Witness ==
    /\ dresp.code = 200
    /\ nWrites > dresp.w0
    /\ FileAt(dsid, "conclusions.json") \in {TxtCut, "ENOENT"}
    /\ dreads["conclusions.json"].val = NullDoc
    /\ dreads["explorations.json"].val # NullDoc

\* The conclusions document a request on the present file system reads.
ConclusionsNow(id) == ExpectedRead("conclusions.json", FileAt(id, "conclusions.json"))

ExpectedTopic(id, conclusions) ==
    IF conclusions.t = "object" /\ conclusions.topic.t = "string"
    THEN conclusions.topic
    ELSE Str(ReplaceDashes(SlugPart(id)))

\* C8: the topic of every summary and of every detail record is a string: the
\* conclusions artifact's topic when that is a string, and else the slug with
\* each '-' replaced by a space.
C8_TopicIsString ==
    /\ lresp.code = 200 =>
          \A i \in 1..Len(lresp.data) :
              /\ lresp.data[i].topic.t = "string"
              /\ lresp.data[i].topic =
                     ExpectedTopic(lresp.data[i].id, ConclusionsNow(lresp.data[i].id))
    /\ dresp.code = 200 =>
          /\ dresp.data.topic.t = "string"
          /\ dresp.data.topic = ExpectedTopic(dresp.data.id, dresp.data.conclusions)

\* What parseSessionId is to return for a name that is a session name.
ExpectedIdentity(name) ==
    [ok |-> TRUE, slug |-> SlugPart(name),
     date |-> SubSeq(name, Len(name) - 9, Len(name))]

\* C9 as stated: parse returns an identity exactly when the whole name is
\* 'ANL-' + slug + '-' + date with a non-empty slug and a date token; then
\* date is the last 10 characters, slug what lies between, and
\* 'ANL-' + slug + '-' + date is the name; any other name gives invalid.
C9_ParsesEveryWellFormedName ==
    presult # NotParsed =>
        IF WellFormedName(pname)
        THEN /\ presult = ExpectedIdentity(pname)
             /\ ANL \o presult.slug \o <<"-">> \o presult.date = pname
        ELSE presult = NoIdentity

\* C9 amended: the same, for a slug that holds no line terminator; a name
\* whose slug holds one gives invalid like any other non-conforming name.
C9_ParsesWellFormedOneLineName ==
    presult # NotParsed =>
        IF MatchesPattern(pname)
        THEN /\ presult = ExpectedIdentity(pname)
             /\ ANL \o presult.slug \o <<"-">> \o presult.date = pname
        ELSE presult = NoIdentity

\* A name was parsed whose slug itself begins with a date token.
C9_Witness ==
    /\ presult.ok
    /\ Len(presult.slug) > 10
    /\ IsDateToken(SubSeq(presult.slug, 1, 10))
    /\ presult.date # SubSeq(presult.slug, 1, 10)

\* C10: listing when the analysis directory does not exist is a success with
\* an empty sequence and total 0.
C10_MissingDirIsEmptySuccess ==
    (ListSettled /\ adir = "missing") =>
        /\ lresp.code = 200
        /\ lresp.data = <<>>
        /\ lresp.total = 0

\* A list request on a project without analysis directory was answered.
C10_Witness ==
    /\ ListSettled
    /\ adir = "missing"
    /\ lpc = "done"
    /\ lresp.code = 200

\* The field of the detail record that holds the result of reading artifact a.
DetailField(a) ==
    CASE a = "discussion.md" -> dresp.data.discussion
      [] a = "conclusions.json" -> dresp.data.conclusions
      [] a = "explorations.json" -> dresp.data.explorations
      [] a = "perspectives.json" -> dresp.data.perspectives

\* C15: the four artifact reads of a detail request are independent: the
\* request is not answered before all four have ended; once they have, the
\* record is sent whichever of them came back absent; each field is the result
\* of its own read; and on an unchanged file system each field is what its own
\* file holds, so the record is the same for every order of completion.
C15_ReadsIndependent ==
    /\ dpc = "reads" => dresp.code = 0
    /\ (dpc = "done" /\ \A a \in Artifacts : dreads[a].pc = "done") =>
          /\ dresp.code = 200
          /\ \A a \in Artifacts :
                /\ DetailField(a) = dreads[a].val
                /\ dresp.w0 = nWrites =>
                      DetailField(a) = ExpectedRead(a, FileAtPath(ArtifactPath(dsid, a)))

\* A record was sent in which the first and third reads came back absent and
\* the second and fourth came back with a value.
C15_Witness ==
    /\ dresp.code = 200
    /\ dresp.w0 = nWrites
    /\ dresp.data.discussion = NullDoc
    /\ dresp.data.conclusions # NullDoc
    /\ dresp.data.explorations = NullDoc
    /\ dresp.data.perspectives # NullDoc

\* The orders in which a directory enumeration can yield n children.
EnumerationOrders(n) ==
    {p \in [1..n -> 1..n] : \A i, j \in 1..n : i # j => p[i] # p[j]}

\* C16: the order of a list response is total and deterministic: the sessions
\* come out in the same sequence whatever order the directory enumeration
\* yields them in, sessions with the same createdAt included.
C16_OrderDeterministic ==
    lresp.code = 200 =>
        \A p \in EnumerationOrders(Len(lsessions)) :
            SortSessions([i \in 1..Len(lsessions) |-> lsessions[p[i]]]) = lresp.data

\* C19: on an unchanged file system the two requests agree on which names are
\* sessions: a detail request returns a record only for an identifier the
\* list includes, and every identifier the list includes gets a record.
C19_ListAndDetailAgree ==
    (lresp.code # 0 /\ dresp.code # 0 /\ ~decodeURIComponent(draw).thrown) =>
        /\ dresp.code = 200 => (lresp.code = 200 /\ dresp.data.id \in ListedIds)
        /\ (lresp.code = 200 /\ dsid \in ListedIds) => dresp.code = 200

\* C20: for every identifier a detail request accepts, the only files read
\* are the four artifacts directly inside the child of the analysis directory
\* whose name is the identifier; nothing outside the analysis directory is
\* read, whatever the identifier holds after URL-decoding.
C20_ReadsOnlySessionArtifacts ==
    \A a \in Artifacts :
        dreads[a].pc \in {"read", "done"} =>
            ArtifactPath(dsid, a) = AnalysisDir \o <<dsid, a>>

\* The value of the data at a path.
RECURSIVE ValueAt(_, _)
ValueAt(value, path) ==
    IF path = <<>> THEN value ELSE ValueAt(value.items[Head(path)], Tail(path))

Mounted == rview # NotMounted
ArrayTags == {"Empty list", "badges", "list"}
IsPrimitive(value) == value.t \notin {"array", "object"}

C12_PrimitiveShapes ==
    \A el \in Elements(rview) :
        LET v == ValueAt(rdata, el.path)
            shown == el.kids[1]
        IN  (el.tag \in {"CardItem", "entry"} /\ IsPrimitive(v)) =>
                /\ shown.text = IF v.t = "null" THEN <<"n", "u", "l", "l">> ELSE v.s
                /\ shown.tag =
                      CASE v.t = "null" -> "null"
                        [] v.t = "boolean" -> "Badge"
                        [] v.t = "number" -> "number"
                        [] v.t = "string" ->
                              IF \/ startsWith(v.s, <<"h", "t", "t", "p", ":", "/", "/">>)
                                 \/ startsWith(v.s, <<"h", "t", "t", "p", "s", ":", "/", "/">>)
                              THEN "a"
                              ELSE IF Len(v.s) > 100 THEN "pre-wrap" ELSE "span"

\* A link longer than 100 characters is shown.
C12_Witness ==
    \E el \in Elements(rview) : el.tag = "a" /\ Len(el.text) > 100

\* The label C13 describes.
ClaimedLabel(key) ==
    LET RECURSIVE spaced(_)
        spaced(i) ==
            IF i > Len(key) THEN <<>>
            ELSE (IF key[i] = "_" THEN <<" ">>
                  ELSE IF i > 1 /\ (\E k \in 1..26 : UpperCase[k] = key[i])
                  THEN <<" ", key[i]>>
                  ELSE <<key[i]>>) \o spaced(i + 1)
        words == spaced(1)
    IN  IF words = <<>> THEN words ELSE toUpperCase(<<Head(words)>>) \o Tail(words)

\* C13: the label of every object key is the key with each underscore
\* replaced by a space, a space put before each capital letter but the first
\* character, and the first character of the result upper-cased, nothing else
\* changed; a label that is not empty begins with the upper-cased first
\* character of its key.
C13_LabelOfKey ==
    \A el \in Elements(rview) :
        el.tag = "CardItem" =>
            LET key == ValueAt(rdata, SubSeq(el.path, 1, Len(el.path) - 1))
                          .keys[el.path[Len(el.path)]]
            IN  /\ el.text = ClaimedLabel(key)
                /\ el.text # <<>> => <<el.text[1]>> = toUpperCase(<<key[1]>>)

\* C17: in an indexed list an element that is an object is rendered by the
\* Object rule, an element that is an array by the Array rule, a primitive
\* element by the Primitive rule; no element is shown as its string
\* conversion.
C17_ListEntriesRecurse ==
    \A el \in Elements(rview) :
        el.tag = "entry" =>
            LET v == ValueAt(rdata, el.path)
                shown == el.kids[1]
            IN  /\ v.t = "object" => shown.tag \in {"object", "Empty object"}
                /\ v.t = "array" => shown.tag \in ArrayTags
                /\ IsPrimitive(v) => shown = PrimitiveValue(v, el.path)
                /\ shown.tag # "String"

\* C18: the depth of a rendered field is the number of objects and arrays
\* entered on the way from the root to it: 0 for the root's fields, one more
\* for each nested object and each nested array, never set back.
C18_DepthCountsNesting ==
    \A el \in Elements(rview) :
        el.tag = "CardItem" => el.depth = Len(el.path) - 1

\* text holds query somewhere, the case of letters ignored.
ContainsIgnoringCase(text, query) ==
    \E k \in 0..(Len(text) - Len(query)) :
        \A i \in 1..Len(query) :
            toLowerCase(<<text[k + i]>>) = toLowerCase(<<query[i]>>)

\* The returned sessions the search text selects.
Matching ==
    SelectSeq(qsessions,
              LAMBDA session : \/ ContainsIgnoringCase(session.topic.s, searchQuery)
                               \/ ContainsIgnoringCase(session.id, searchQuery))

====
